---- MODULE Spec2Model ----
(***************************************************************************)
(* Replay of recorded sensor measurements over an RFCOMM serial channel.   *)
(*                                                                         *)
(* The measurement pipeline and the playback driver are those of           *)
(* src/test-bluetooth.ts (lines 40-252, the simulator's index module); the *)
(* transport is the Bluetooth class of src/unnamed/part_000.  The types    *)
(* module (MeasurementTypeEnum, DataGroup) is not among the sources and is *)
(* modelled from the specification.  The older Bluetooth class of          *)
(* src/src/bluetooth.ts is referred to only where a property names what it *)
(* has and part_000 has not.                                               *)
(***************************************************************************)
EXTENDS Integers, Sequences, FiniteSets, TLC

(***************************************************************************)
(* Bounds of the model.                                                    *)
(***************************************************************************)
MaxLen ==
  2

MaxPlayLen ==
  3

MaxMainLen ==
  2

MaxCloses ==
  1

MaxAttempts ==
  7

MaxApiSends ==
  2

MaxApiCloses ==
  2

VARIABLES
  mainPc,        \* main: where it is suspended
  measurements,  \* readUserData + flatMeasurementData: the flattened input
  gi,            \* groupMeasurementsByTimestamp: measurements consumed so far
  group,         \* the Map<number, DataGroup> under construction / built
  pc,            \* prepareAndSendMessages: where the driver is suspended
  i,             \* its loop index (0-based)
  f,             \* index in FieldOrder of the field whose write is pending
  trace,         \* writes handed to the device and timers armed, in order
  now,           \* Date.now(), in ms since the driver started
  aborted,       \* abortSignal.aborted
  abortAt,       \* where the driver was suspended when the signal was set (<<>>: not set)
  perr,          \* the error the driver's promise rejected with
  pending,       \* indexes in trace of the writes whose fs.write has not called back
  mainErr,       \* the error main's promise rejected with
  rfcommProc,    \* Bluetooth.rfcommProc: index of the attempt whose process it is (0: null)
  rfcommFd,      \* Bluetooth.rfcommFd (0: null)
  deviceAddress, \* Bluetooth.deviceAddress
  connPc,        \* startConnection: where it is suspended
  connErr,       \* the error startConnection's promise rejected with
  ch,            \* connectRFCOMM: index in knownChannels of the current candidate
  att,           \* per candidate: its subprocess, timer, `resolved` flag and promise
  opens,         \* number of fs.openSync('/dev/rfcomm0') calls made
  closePc,       \* closeConnection: where it is suspended
  closes,        \* number of closeConnection calls begun
  closeFault,    \* closeConnection in progress: whether its fs.closeSync threw
  stdout,        \* resolveAddress: the listing it was called back with
  envName        \* process.env.BLUETOOTH_DEVICE_NAME

dataVars ==
  <<measurements, gi, group>>

playVars ==
  <<pc, i, f, trace, now, aborted, abortAt, perr, pending>>

btVars ==
  <<rfcommProc, rfcommFd, deviceAddress, connPc, connErr, ch, att, opens,
    closePc, closes, closeFault, stdout, envName>>

resolveVars ==
  <<stdout, envName>>

vars ==
  <<mainPc, mainErr, dataVars, playVars, btVars>>

Null ==
  0

\* descriptor returned by the first fs.openSync of the process
FirstFd ==
  3

(***************************************************************************)
(* JSON values of the data model: a number or an array of numbers.  A      *)
(* field a group does not hold reads as undefined.                         *)
(***************************************************************************)
Undefined ==
  [kind |-> "undefined", items |-> <<>>]

Num(n) ==
  [kind |-> "number", items |-> <<n>>]

Arr(s) ==
  [kind |-> "array", items |-> s]

\* JavaScript truthiness of a field value, as tested by `if (datum.x)`:
\* undefined and the number 0 are falsy, every array (also []) is truthy.
Truthy(v) ==
  CASE v.kind = "undefined" -> FALSE
    [] v.kind = "number"    -> v.items[1] # 0
    [] OTHER                -> TRUE

(***************************************************************************)
(* Input alphabets.                                                        *)
(***************************************************************************)
Times ==
  {1, 2, 4}

Users ==
  {1, 2}

Values ==
  {Num(0), Arr(<<59>>)}

\* two recognized types, the two ignored codes and one type without mapping
Types ==
  {"HeartRate", "Position", "R2R", "ECG", "Temperature"}

Measurement ==
  [date : Times, value : Values, userId : Users, measureType : Types]

\* alphabet of the playback runs: one user's two recognized types at every
\* time, one sample of a second user, one sample of an unmapped type and one
\* empty array
PlayMeasurement ==
  { m \in Measurement :
      \/ m.userId = 1 /\ m.measureType \in {"HeartRate", "Position"}
      \/ m.userId = 2 /\ m.measureType = "HeartRate" /\ m.date = 1
                      /\ m.value = Arr(<<59>>)
      \/ m.userId = 1 /\ m.measureType = "Temperature" /\ m.date = 4
                      /\ m.value = Arr(<<59>>) }
    \cup {[date |-> 2, value |-> Arr(<<>>), userId |-> 1, measureType |-> "Position"]}

SeqsUpTo(S, n) ==
  UNION { [1..k -> S] : k \in 0..n }

(***************************************************************************)
(* types module (modelled from the specification, sections 3 and 4.4).     *)
(***************************************************************************)
\* the seven forwarded fields, in the order prepareAndSendMessages tests them
FieldOrder ==
  <<"heartRate", "breathFrequency", "respiration", "accelerationX",
    "accelerationY", "accelerationZ", "position">>

\* measureType written into the message of each of the seven fields
FieldType ==
  <<"HeartRate", "BreathFrequency", "Respiration", "AccelerationX",
    "AccelerationY", "AccelerationZ", "Position">>

AllKeys ==
  {FieldOrder[k] : k \in 1..Len(FieldOrder)} \cup {"r2r", "ecg"}

\* MeasurementTypeEnum[mt]; "" stands for undefined (no such member)
MeasurementTypeEnum(mt) ==
  CASE mt = "HeartRate"       -> "heartRate"
    [] mt = "BreathFrequency" -> "breathFrequency"
    [] mt = "Respiration"     -> "respiration"
    [] mt = "AccelerationX"   -> "accelerationX"
    [] mt = "AccelerationY"   -> "accelerationY"
    [] mt = "AccelerationZ"   -> "accelerationZ"
    [] mt = "Position"        -> "position"
    [] mt = "R2R"             -> "r2r"
    [] mt = "ECG"             -> "ecg"
    [] OTHER                  -> ""

(***************************************************************************)
(* Measurement pipeline.                                                   *)
(***************************************************************************)
RECURSIVE flatMeasurementData(_)
flatMeasurementData(data) ==
  IF data = <<>> THEN <<>>
  ELSE Head(data).data \o flatMeasurementData(Tail(data))

\* the file content an input sequence stands for: two user entries
UserDataOf(ms) ==
  LET k == Len(ms) \div 2
  IN  << [data |-> SubSeq(ms, 1, k)], [data |-> SubSeq(ms, k + 1, Len(ms))] >>

ignoreOnlyR2R(measureType) ==
  measureType = "R2R"

ignoreMeasurementType(measureType) ==
  measureType = "R2R" \/ measureType = "ECG"

\* Map.has / index of the entry of a key; the Map is the sequence of its
\* entries in insertion order
MapHas(g, timestamp) ==
  \E k \in 1..Len(g) : g[k].timestamp = timestamp

MapIndex(g, timestamp) ==
  CHOOSE k \in 1..Len(g) : g[k].timestamp = timestamp

NewGroup(m) ==
  [timestamp |-> m.date, userId |-> m.userId,
   fields |-> [k \in AllKeys |-> Undefined]]

\* one iteration of the loop of groupMeasurementsByTimestamp
GroupOne(g, m) ==
  IF ignoreMeasurementType(m.measureType) THEN g
  ELSE LET g1 == IF MapHas(g, m.date) THEN g ELSE Append(g, NewGroup(m))
           k  == MapIndex(g1, m.date)
           measureKey == MeasurementTypeEnum(m.measureType)
       IN  IF measureKey # ""
           THEN [g1 EXCEPT ![k].fields[measureKey] = m.value]
           ELSE g1

RECURSIVE GroupFrom(_, _)
GroupFrom(g, ms) ==
  IF ms = <<>> THEN g ELSE GroupFrom(GroupOne(g, Head(ms)), Tail(ms))

groupMeasurementsByTimestamp(ms) ==
  GroupFrom(<<>>, ms)

\* the loop of groupMeasurementsByTimestamp, one measurement per step
GroupStep ==
  /\ mainPc = "grouping"
  /\ gi < Len(measurements)
  /\ gi' = gi + 1
  /\ group' = GroupOne(group, measurements[gi + 1])
  /\ UNCHANGED <<mainPc, mainErr, measurements, playVars, btVars>>

(***************************************************************************)
(* Playback driver: prepareAndSendMessages and waitDelta.                  *)
(***************************************************************************)
RECURSIVE InsertAsc(_, _)
InsertAsc(x, s) ==
  IF s = <<>> THEN <<x>>
  ELSE IF x - Head(s) <= 0 THEN <<x>> \o s
  ELSE <<Head(s)>> \o InsertAsc(x, Tail(s))

RECURSIVE SortAsc(_)
SortAsc(s) ==
  IF s = <<>> THEN <<>> ELSE InsertAsc(Head(s), SortAsc(Tail(s)))

\* Array.from(data.keys()): the keys in insertion order
MapKeys(g) ==
  [k \in 1..Len(g) |-> g[k].timestamp]

sortedTimestampsUnsorted(g) ==
  MapKeys(g)

sortedTimestamps(g) ==
  SortAsc(MapKeys(g))

timeDeltas(st) ==
  [k \in 1..(Len(st) - 1) |-> st[k + 1] - st[k]]

\* sortedTimestamps and timeDeltas of the driver: computed once from the
\* finished Map, which nothing changes afterwards
sortedTs ==
  sortedTimestamps(group)

deltas ==
  timeDeltas(sortedTs)

\* data.get(timestamp) for the timestamp of iteration idx; the key comes from
\* data.keys(), so the entry exists and the `continue` of line 146 is dead
Datum(idx) ==
  group[MapIndex(group, sortedTs[idx + 1])]

\* first field at or after position from whose `if (datum.x)` test passes
NextField(datum, from) ==
  LET S == { k \in from..Len(FieldOrder) : Truthy(datum.fields[FieldOrder[k]]) }
  IN  IF S = {} THEN 0 ELSE CHOOSE k \in S : \A j \in S : k <= j

\* a write of one message line to the device; ts is the timestamp of the
\* group the message was built from (history, not part of the line)
SendEntry(datum, k, t, fd) ==
  [kind |-> "send", ms |-> 0, fd |-> fd, date |-> t,
   value |-> datum.fields[FieldOrder[k]], userId |-> datum.userId,
   measureType |-> FieldType[k], ts |-> datum.timestamp]

\* setTimeout(res, ms)
WaitEntry(ms) ==
  [kind |-> "wait", ms |-> ms, fd |-> 0, date |-> 0, value |-> Undefined,
   userId |-> 0, measureType |-> "", ts |-> 0]

Ctl(p, idx, k, tr, e) ==
  [pc |-> p, i |-> idx, f |-> k, trace |-> tr, perr |-> e]

NotConnectedError ==
  "RFCOMM not connected"

\* Bluetooth.sendMessage up to its await: throws without a descriptor,
\* otherwise hands the line to fs.write
sendMessageUnchecked(tr, entry) ==
  [thrown |-> "", trace |-> Append(tr, entry)]

sendMessage(tr, entry) ==
  IF rfcommFd = Null
  THEN [thrown |-> NotConnectedError, trace |-> tr]
  ELSE [thrown |-> "", trace |-> Append(tr, entry)]

\* the driver's `await bluetoothClient.sendMessage(JSON.stringify(...))`
StartSendNoAwait(idx, k, tr, t) ==
  LET r  == sendMessage(tr, SendEntry(Datum(idx), k, t, rfcommFd))
      k2 == NextField(Datum(idx), k + 1)
  IN  IF r.thrown # ""
      THEN Ctl("rejected", idx, 0, tr, r.thrown)
      ELSE IF k2 = 0
      THEN Ctl("writing", idx, k, r.trace, "")
      ELSE Ctl("writing", idx, k2,
               sendMessage(r.trace, SendEntry(Datum(idx), k2, t, rfcommFd)).trace, "")

StartSend(idx, k, tr, t) ==
  LET r == sendMessage(tr, SendEntry(Datum(idx), k, t, rfcommFd))
  IN  IF r.thrown # ""
      THEN Ctl("rejected", idx, 0, tr, r.thrown)
      ELSE Ctl("writing", idx, k, r.trace, "")

RECURSIVE EnterIteration(_, _, _)

\* waitDelta(i, timeDeltas) and what follows it in the loop body
waitDeltaUnlessAborted(idx, tr, t) ==
  IF idx < Len(deltas) /\ ~aborted
  THEN Ctl("timer", idx, 0, Append(tr, WaitEntry(deltas[idx + 1] * 1000)), "")
  ELSE EnterIteration(idx + 1, tr, t)

waitDeltaNoScale(idx, tr, t) ==
  IF idx < Len(deltas)
  THEN Ctl("timer", idx, 0, Append(tr, WaitEntry(deltas[idx + 1])), "")
  ELSE EnterIteration(idx + 1, tr, t)

waitDelta(idx, tr, t) ==
  IF idx < Len(deltas)
  THEN Ctl("timer", idx, 0, Append(tr, WaitEntry(deltas[idx + 1] * 1000)), "")
  ELSE EnterIteration(idx + 1, tr, t)

\* the abort test at the head of the loop
LoopBreakNever(ab) ==
  FALSE

LoopBreak(ab) ==
  ab

\* the loop from its head at index idx up to the next await
EnterIteration(idx, tr, t) ==
  IF ~(idx < Len(sortedTs)) THEN Ctl("done", idx, 0, tr, "")
  ELSE IF LoopBreak(aborted) THEN Ctl("done", idx, 0, tr, "")
  ELSE LET k == NextField(Datum(idx), 1)
       IN  IF k # 0 THEN StartSend(idx, k, tr, t) ELSE waitDelta(idx, tr, t)

\* the rest of the loop body after the write of field k has resolved
AfterWriteChecksAbort(idx, k, tr, t) ==
  LET k2 == NextField(Datum(idx), k + 1)
  IN  IF aborted THEN Ctl("done", idx, 0, tr, "")
      ELSE IF k2 # 0 THEN StartSend(idx, k2, tr, t) ELSE waitDelta(idx, tr, t)

AfterWrite(idx, k, tr, t) ==
  LET k2 == NextField(Datum(idx), k + 1)
  IN  IF k2 # 0 THEN StartSend(idx, k2, tr, t) ELSE waitDelta(idx, tr, t)

\* the write whose callback is run: fs.write calls back in the order of the
\* calls
Completing ==
  IF pc = "writing" /\ pending # {}
  THEN {CHOOSE k \in pending : \A j \in pending : k <= j}
  ELSE {}

\* the writes handed to fs.write when the trace grows from tr to tr2
NewWrites(tr, tr2) ==
  { k \in (Len(tr) + 1)..Len(tr2) : tr2[k].kind = "send" }

Resume(c) ==
  /\ pc' = c.pc
  /\ i' = c.i
  /\ f' = c.f
  /\ trace' = c.trace
  /\ perr' = c.perr
  /\ pending' = (pending \ Completing) \cup NewWrites(trace, c.trace)

\* main, lines 246-251: prepareAndSendMessages is called without await and
\* runs up to its first await, then main returns the cleanup closure
MainPlayAwaited ==
  /\ mainPc = "connected"
  /\ LET c == EnterIteration(0, trace, now)
     IN  /\ mainPc' = IF c.pc = "done" THEN "returned" ELSE "playing"
         /\ Resume(c)
  /\ UNCHANGED <<mainErr, dataVars, now, aborted, abortAt, btVars>>

MainPlay ==
  /\ mainPc = "connected"
  /\ mainPc' = "returned"
  /\ Resume(EnterIteration(0, trace, now))
  /\ UNCHANGED <<mainErr, dataVars, now, aborted, abortAt, btVars>>

\* fs.write calls back without error: sendMessage resolves
WriteDone ==
  /\ pc = "writing"
  /\ Resume(AfterWrite(i, f, trace, now))
  /\ UNCHANGED <<mainPc, mainErr, dataVars, now, aborted, abortAt, btVars>>

\* fs.write calls back with an error: sendMessage rejects, and with it the
\* driver's promise
WriteError ==
  /\ pc = "writing"
  /\ pc' = "rejected"
  /\ perr' = "write error"
  /\ f' = 0
  /\ pending' = pending \ Completing
  /\ UNCHANGED <<mainPc, mainErr, dataVars, i, trace, now, aborted, abortAt, btVars>>

\* the timer of waitDelta fires after its delay
TimerFired ==
  /\ pc = "timer"
  /\ now' = now + trace[Len(trace)].ms
  /\ Resume(EnterIteration(i + 1, trace, now'))
  /\ UNCHANGED <<mainPc, mainErr, dataVars, aborted, abortAt, btVars>>

\* the caller's AbortController aborts; nothing of the driver runs
Abort ==
  /\ ~aborted
  /\ aborted' = TRUE
  /\ abortAt' = <<pc, f>>
  /\ UNCHANGED <<mainPc, mainErr, dataVars, pc, i, f, trace, now, perr, pending,
                 btVars>>

(***************************************************************************)
(* Strings, as sequences of characters.                                    *)
(***************************************************************************)
Upper ==
  <<"A", "B", "C", "D", "E", "F", "H", "P", "T">>

Lower ==
  <<"a", "b", "c", "d", "e", "f", "h", "p", "t">>

ToLowerChar(c) ==
  IF \E k \in 1..Len(Upper) : Upper[k] = c
  THEN Lower[CHOOSE k \in 1..Len(Upper) : Upper[k] = c]
  ELSE c

toLowerCase(str) ==
  [k \in 1..Len(str) |-> ToLowerChar(str[k])]

includes(str, part) ==
  \E k \in 0..(Len(str) - Len(part)) : SubSeq(str, k + 1, k + Len(part)) = part

\* the character class [0-9A-F:] under the i flag
IsAddrChar(c) ==
  c \in {"0", "1", "2", "3", "4", "5", "6", "7", "8", "9", ":",
         "A", "B", "C", "D", "E", "F", "a", "b", "c", "d", "e", "f"}

AddrLen ==
  17

\* /^[0-9A-F:]{17}$/i.test(nameOrAddr)
LooksLikeAddressNoFlag(str) ==
  /\ Len(str) = AddrLen
  /\ \A k \in 1..Len(str) : str[k] \in {"0", "1", "2", "3", "4", "5", "6", "7", "8",
                                        "9", ":", "A", "B", "C", "D", "E", "F"}

LooksLikeAddress(str) ==
  /\ Len(str) = AddrLen
  /\ \A k \in 1..Len(str) : IsAddrChar(str[k])

Addr1 ==
  <<"A", "A", ":", "B", "B", ":", "C", "C", ":", "D", "D", ":", "E", "E", ":", "0", "1">>

Addr2 ==
  <<"A", "A", ":", "B", "B", ":", "C", "C", ":", "D", "D", ":", "E", "E", ":", "0", "2">>

\* a line of `bluetoothctl devices Paired`: isDevice says whether
\* /Device ([A-Fa-f0-9:]{17}) (.+)/ matches it, with groups address and name
DeviceLine(a, n) ==
  [isDevice |-> TRUE, address |-> a, name |-> n]

OtherLine ==
  [isDevice |-> FALSE, address |-> <<>>, name |-> <<>>]

\* BLUETOOTH_DEVICE_ADDRESS: unset, an address, a name fragment
Configs ==
  { <<>>, Addr1, <<"p", "H">> }

\* further values of BLUETOOTH_DEVICE_ADDRESS: an address in lower case, 17
\* characters that are not all of the class, 16 that are, a name no device has
AddrLower ==
  <<"a", "a", ":", "b", "b", ":", "c", "c", ":", "d", "d", ":", "e", "e", ":", "0", "1">>

NotAddr17 ==
  <<"T", "A", ":", "B", "B", ":", "C", "C", ":", "D", "D", ":", "E", "E", ":", "0", "1">>

Short16 ==
  <<"A", "A", ":", "B", "B", ":", "C", "C", ":", "D", "D", ":", "E", "E", ":", "0">>

\* the environment: BLUETOOTH_DEVICE_ADDRESS with no name, or only
\* BLUETOOTH_DEVICE_NAME
Environments ==
  { [address |-> c, name |-> <<>>] :
      c \in Configs \cup {AddrLower, NotAddr17, Short16, <<"a", "B">>} }
    \cup { [address |-> <<>>, name |-> <<"p", "H">>] }

\* what the listing command can print
Listings ==
  { <<>>,
    << DeviceLine(Addr1, <<"P", "h", "o", "n", "e">>) >>,
    << OtherLine, DeviceLine(Addr2, <<"T", "a", "b">>),
       DeviceLine(Addr1, <<"P", "h", "o", "n", "e">>) >> }

(***************************************************************************)
(* Transport: the Bluetooth class.                                         *)
(***************************************************************************)
ParseError ==
  "Failed to parse user data JSON"

ReadError ==
  "readFile failed"

ListingError ==
  "bluetoothctl devices Paired failed"

\* the error of the older class (src/src/bluetooth.ts, line 74) for a call
\* with nothing to identify the device; src/unnamed/part_000 has no such test
ConfigurationMissingError ==
  "Device address or name is required"

NotFoundError ==
  "Paired device not found"

ChannelError ==
  "Failed to open RFCOMM on any available channel"

OpenError ==
  "openSync failed"

knownChannels ==
  <<12, 19, 26, 3, 2>>

NoAttempt ==
  [proc |-> "none", timer |-> "none", resolved |-> FALSE, ok |-> "pending", chan |-> 0]

\* the subprocesses spawned so far are numbered in the order of their spawn
Attempts ==
  1..MaxAttempts

Spawned ==
  Cardinality({ k \in DOMAIN att : att[k].proc # "none" })

\* resolveAddress, lines 40-44: the first device line whose name contains the
\* fragment, case-insensitively; 0 when there is none
resolveFromListingCaseSensitive(nameOrAddr, lines) ==
  LET S == { k \in 1..Len(lines) :
               lines[k].isDevice /\ includes(lines[k].name, nameOrAddr) }
  IN  IF S = {} THEN 0 ELSE CHOOSE k \in S : \A j \in S : k <= j

resolveFromListing(nameOrAddr, lines) ==
  LET S == { k \in 1..Len(lines) :
               /\ lines[k].isDevice
               /\ includes(toLowerCase(lines[k].name), toLowerCase(nameOrAddr)) }
  IN  IF S = {} THEN 0 ELSE CHOOSE k \in S : \A j \in S : k <= j

\* startConnection rejects with e, and main (awaiting it) with it
ConnectionFailsSwallowed(e) ==
  /\ connPc' = "failed"
  /\ connErr' = e
  /\ mainPc' = "connected"
  /\ UNCHANGED mainErr

ConnectionFails(e) ==
  /\ connPc' = "failed"
  /\ connErr' = e
  /\ mainPc' = "failed"
  /\ mainErr' = e

\* connectRFCOMM, lines 85-90: the attempt of candidate k reported success
AttemptSucceededKeepTrying(k) ==
  /\ rfcommProc' = k
  /\ rfcommFd' = FirstFd + opens
  /\ opens' = opens + 1
  /\ IF ch < Len(knownChannels)
     THEN /\ ch' = ch + 1
          /\ connPc' = "release"
          /\ UNCHANGED <<connErr, mainPc, mainErr>>
     ELSE /\ connPc' = "connected"
          /\ mainPc' = "connected"
          /\ UNCHANGED <<ch, connErr, mainErr>>

AttemptSucceeded(k) ==
  /\ rfcommProc' = k
  /\ opens' = opens + 1
  /\ UNCHANGED ch
  /\ \/ /\ rfcommFd' = FirstFd + opens
        /\ connPc' = "connected"
        /\ mainPc' = "connected"
        /\ UNCHANGED <<connErr, mainErr>>
     \/ /\ UNCHANGED rfcommFd
        /\ ConnectionFails(OpenError)

\* connectRFCOMM, lines 57-59 and 93-94: the attempt failed; next candidate,
\* or the error when none is left
AttemptFailedOpensAnyway ==
  IF ch < Len(knownChannels)
  THEN /\ ch' = ch + 1
       /\ connPc' = "release"
       /\ UNCHANGED <<rfcommProc, rfcommFd, opens, connErr, mainPc, mainErr>>
  ELSE /\ ConnectionFails(ChannelError)
       /\ rfcommFd' = FirstFd + opens
       /\ opens' = opens + 1
       /\ UNCHANGED <<rfcommProc, ch>>

AttemptFailed ==
  IF ch < Len(knownChannels)
  THEN /\ ch' = ch + 1
       /\ connPc' = "release"
       /\ UNCHANGED <<rfcommProc, rfcommFd, opens, connErr, mainPc, mainErr>>
  ELSE /\ ConnectionFails(ChannelError)
       /\ UNCHANGED <<rfcommProc, rfcommFd, opens, ch>>

\* a handler of attempt k calls resolve(outcome): only the first call settles
\* the promise, and connectRFCOMM, which awaits it, goes on
DecideEveryTime(k, outcome, a2) ==
  /\ att' = [a2 EXCEPT ![k].ok = outcome]
  /\ IF outcome = "true" THEN AttemptSucceeded(k) ELSE AttemptFailed

Decide(k, outcome, a2) ==
  IF a2[k].ok # "pending"
  THEN /\ att' = a2
       /\ UNCHANGED <<rfcommProc, rfcommFd, opens, connPc, connErr, ch, mainPc, mainErr>>
  ELSE /\ att' = [a2 EXCEPT ![k].ok = outcome]
       /\ IF outcome = "true" THEN AttemptSucceeded(k) ELSE AttemptFailed

\* main, line 240: readUserData resolves or rejects
MainReadGoesOn ==
  /\ mainPc = "start"
  /\ mainPc' = "grouping"
  /\ \/ UNCHANGED <<mainErr, measurements>>
     \/ /\ mainErr' \in {ParseError, ReadError}
        /\ measurements' = <<>>
  /\ UNCHANGED <<gi, group, playVars, btVars>>

MainRead ==
  /\ mainPc = "start"
  /\ \/ /\ mainPc' = "grouping"
        /\ UNCHANGED <<mainErr, measurements>>
     \/ /\ mainPc' = "failed"
        /\ mainErr' \in {ParseError, ReadError}
        /\ measurements' = <<>>
  /\ UNCHANGED <<gi, group, playVars, btVars>>

\* main, lines 241-244, and startConnection up to its first await: the address
\* pattern test of resolveAddress, then the listing command or, for an
\* address, `bluetoothctl connect` of ensurePaired
MainConnect ==
  /\ mainPc = "grouping"
  /\ gi = Len(measurements)
  /\ mainPc' = "connecting"
  /\ connPc' = IF LooksLikeAddress(deviceAddress) THEN "ensurePaired" ELSE "listing"
  /\ UNCHANGED <<mainErr, dataVars, playVars, rfcommProc, rfcommFd, deviceAddress,
                 connErr, ch, att, opens, closePc, closes, closeFault, resolveVars>>

\* resolveAddress, lines 37-39: the listing command calls back, with an error
\* or with its output
ListingDone ==
  /\ connPc = "listing"
  /\ \/ /\ ConnectionFails(ListingError)
        /\ UNCHANGED stdout
     \/ /\ stdout' \in Listings
        /\ connPc' = "listed"
        /\ UNCHANGED <<connErr, mainPc, mainErr>>
  /\ UNCHANGED <<dataVars, playVars, rfcommProc, rfcommFd, deviceAddress, ch, att,
                 opens, closePc, closes, closeFault, envName>>

\* resolveAddress, lines 40-44, and startConnection, lines 11-12: the lines
\* are scanned; the first match becomes the address and `bluetoothctl
\* connect` is started, no match is the error
ResolveReturn ==
  /\ connPc = "listed"
  /\ LET k == resolveFromListing(deviceAddress, stdout)
     IN  IF k = 0
         THEN /\ ConnectionFails(NotFoundError)
              /\ UNCHANGED deviceAddress
         ELSE /\ deviceAddress' = stdout[k].address
              /\ connPc' = "ensurePaired"
              /\ UNCHANGED <<connErr, mainPc, mainErr>>
  /\ stdout' = <<>>
  /\ UNCHANGED <<dataVars, playVars, rfcommProc, rfcommFd, ch, att, opens,
                 closePc, closes, closeFault, envName>>

\* variant: the first connect subprocess is spawned with no release before it
EnsurePairedDoneSpawnsAtOnce ==
  /\ connPc = "ensurePaired"
  /\ connPc' = "await"
  /\ ch' = 1
  /\ att' = [att EXCEPT ![Spawned + 1] =
               [proc |-> "running", timer |-> "armed", resolved |-> FALSE,
                ok |-> "pending", chan |-> knownChannels[1]]]
  /\ UNCHANGED <<mainPc, mainErr, dataVars, playVars, rfcommProc, rfcommFd,
                 deviceAddress, connErr, opens, closePc, closes, closeFault,
                 resolveVars>>

\* ensurePaired: `bluetoothctl connect` calls back, its error ignored;
\* connectRFCOMM starts with the first candidate's `rfcomm release 0`
EnsurePairedDone ==
  /\ connPc = "ensurePaired"
  /\ connPc' = "release"
  /\ ch' = 1
  /\ UNCHANGED <<mainPc, mainErr, dataVars, playVars, rfcommProc, rfcommFd,
                 deviceAddress, connErr, att, opens, closePc, closes, closeFault,
                 resolveVars>>

\* connectRFCOMM, lines 59-67: the release calls back, the connect subprocess
\* of the candidate is spawned and its 4 s timer armed
ReleaseDone ==
  /\ connPc = "release"
  /\ connPc' = "await"
  /\ att' = [att EXCEPT ![Spawned + 1] =
               [proc |-> "running", timer |-> "armed", resolved |-> FALSE,
                ok |-> "pending", chan |-> knownChannels[ch]]]
  /\ UNCHANGED <<mainPc, mainErr, dataVars, playVars, rfcommProc, rfcommFd,
                 deviceAddress, connErr, ch, opens, closePc, closes, closeFault,
                 resolveVars>>

\* lines 69-75: stdout data of attempt k that holds the success substring
\* (data without it only logs); it may still arrive after the exit event
StdoutSuccess(k) ==
  /\ att[k].proc # "none"
  /\ ~att[k].resolved
  /\ Decide(k, "true",
            [att EXCEPT ![k].resolved = TRUE,
                        ![k].timer = IF @ = "armed" THEN "cleared" ELSE @])
  /\ UNCHANGED <<dataVars, playVars, deviceAddress, closePc, closes, closeFault,
                 resolveVars>>

\* variant: the timer signals the subprocess spawned last, not the one of
\* its own attempt
TimeoutFiredSignalsLatest(k) ==
  /\ att[k].timer = "armed"
  /\ IF ~att[k].resolved
     THEN Decide(k, "false",
                 [att EXCEPT ![k].resolved = TRUE,
                             ![k].timer = "fired",
                             ![Spawned].proc = IF @ = "running" THEN "signalled" ELSE @])
     ELSE /\ att' = [att EXCEPT ![k].timer = "fired"]
          /\ UNCHANGED <<rfcommProc, rfcommFd, opens, connPc, connErr, ch, mainPc, mainErr>>
  /\ UNCHANGED <<dataVars, playVars, deviceAddress, closePc, closes, closeFault,
                 resolveVars>>

\* variant: the timer fires and signals the subprocess, but resolves nothing
TimeoutFiredNoResolve(k) ==
  /\ att[k].timer = "armed"
  /\ att' = [att EXCEPT ![k].timer = "fired",
                        ![k].resolved = TRUE,
                        ![k].proc = IF @ = "running" THEN "signalled" ELSE @]
  /\ UNCHANGED <<rfcommProc, rfcommFd, opens, connPc, connErr, ch, mainPc, mainErr>>
  /\ UNCHANGED <<dataVars, playVars, deviceAddress, closePc, closes, closeFault,
                 resolveVars>>

\* lines 65-67: the timer of attempt k fires
TimeoutFired(k) ==
  /\ att[k].timer = "armed"
  /\ IF ~att[k].resolved
     THEN Decide(k, "false",
                 [att EXCEPT ![k].resolved = TRUE,
                             ![k].timer = "fired",
                             ![k].proc = IF @ = "running" THEN "signalled" ELSE @])
     ELSE /\ att' = [att EXCEPT ![k].timer = "fired"]
          /\ UNCHANGED <<rfcommProc, rfcommFd, opens, connPc, connErr, ch, mainPc, mainErr>>
  /\ UNCHANGED <<dataVars, playVars, deviceAddress, closePc, closes, closeFault,
                 resolveVars>>

\* lines 79-82: the subprocess of attempt k exits
ProcExit(k) ==
  /\ att[k].proc \in {"running", "signalled"}
  /\ IF ~att[k].resolved
     THEN Decide(k, "false", [att EXCEPT ![k].proc = "exited"])
     ELSE /\ att' = [att EXCEPT ![k].proc = "exited"]
          /\ UNCHANGED <<rfcommProc, rfcommFd, opens, connPc, connErr, ch, mainPc, mainErr>>
  /\ UNCHANGED <<dataVars, playVars, deviceAddress, closePc, closes, closeFault,
                 resolveVars>>

\* closeConnection, lines 25-29, up to its await: an open descriptor is
\* closed, which may throw inside the try, and forgotten either way; then
\* `rfcomm release 0` is started
closeConnectionRethrows ==
  /\ closes' = closes + 1
  /\ \/ /\ closePc' = "release"
        /\ rfcommFd' = Null
        /\ closeFault' = FALSE
     \/ /\ rfcommFd # Null
        /\ closePc' = "rejected"
        /\ closeFault' = TRUE
        /\ UNCHANGED rfcommFd

closeConnectionBegin ==
  /\ closes' = closes + 1
  /\ closePc' = "release"
  /\ rfcommFd' = Null
  /\ closeFault' \in (IF rfcommFd # Null THEN BOOLEAN ELSE {FALSE})

\* closeConnection called through main's cleanup closure (index, lines 249-251)
CloseBegin ==
  /\ mainPc = "returned"
  /\ closePc = "idle"
  /\ closes < MaxCloses
  /\ closeConnectionBegin
  /\ UNCHANGED <<mainPc, mainErr, dataVars, playVars, rfcommProc, deviceAddress,
                 connPc, connErr, ch, att, opens, resolveVars>>

\* closeConnection, lines 29-30: the release calls back, its error ignored;
\* the retained subprocess is sent SIGINT, a throw of kill swallowed, and
\* forgotten; the call returns
CloseEnd ==
  /\ closePc = "release"
  /\ closePc' = "idle"
  /\ rfcommProc' = Null
  /\ att' = IF rfcommProc # Null
            THEN [att EXCEPT ![rfcommProc].proc = IF @ = "running" THEN "signalled" ELSE @]
            ELSE att
  /\ closeFault' = FALSE
  /\ UNCHANGED <<mainPc, mainErr, dataVars, playVars, rfcommFd, deviceAddress,
                 connPc, connErr, ch, opens, closes, resolveVars>>

(***************************************************************************)
(* A caller of the class's public methods, one call at a time.             *)
(***************************************************************************)
ApiIdle ==
  /\ mainPc \in {"api", "connected", "failed"}
  /\ closePc = "idle"
  /\ pc = "idle"


\* a line a caller sends
ApiEntry ==
  [kind |-> "send", ms |-> 0, fd |-> rfcommFd, date |-> 0, value |-> Undefined,
   userId |-> 0, measureType |-> "test", ts |-> 0]

\* startConnection(), lines 9-10, up to its first await
ApiStart ==
  /\ ApiIdle
  /\ Spawned + Len(knownChannels) <= MaxAttempts
  /\ mainPc' = "connecting"
  /\ mainErr' = ""
  /\ connErr' = ""
  /\ connPc' = IF LooksLikeAddress(deviceAddress) THEN "ensurePaired" ELSE "listing"
  /\ UNCHANGED <<dataVars, playVars, rfcommProc, rfcommFd, deviceAddress, ch, att,
                 opens, closePc, closes, closeFault, resolveVars>>

\* sendMessage(line), lines 16-21, up to its await
ApiSend ==
  /\ ApiIdle
  /\ Len(trace) < MaxApiSends
  /\ LET r == sendMessage(trace, ApiEntry)
     IN  /\ trace' = r.trace
         /\ perr' = r.thrown
         /\ pc' = IF r.thrown = "" THEN "writing" ELSE "idle"
         /\ pending' = pending \cup NewWrites(trace, r.trace)
  /\ UNCHANGED <<mainPc, mainErr, dataVars, i, f, now, aborted, abortAt, btVars>>

\* fs.write calls back without an error: sendMessage returns
ApiWriteDone ==
  /\ pc = "writing"
  /\ pc' = "idle"
  /\ perr' = ""
  /\ pending' = pending \ Completing
  /\ UNCHANGED <<mainPc, mainErr, dataVars, i, f, trace, now, aborted, abortAt, btVars>>

\* fs.write calls back with an error: sendMessage throws it
ApiWriteError ==
  /\ pc = "writing"
  /\ pc' = "idle"
  /\ perr' = "write error"
  /\ pending' = pending \ Completing
  /\ UNCHANGED <<mainPc, mainErr, dataVars, i, f, trace, now, aborted, abortAt, btVars>>

\* closeConnection(), lines 24-29, up to its await
ApiClose ==
  /\ ApiIdle
  /\ closes < MaxApiCloses
  /\ closeConnectionBegin
  /\ UNCHANGED <<mainPc, mainErr, dataVars, playVars, rfcommProc, deviceAddress,
                 connPc, connErr, ch, att, opens, resolveVars>>

(***************************************************************************)
(* Specifications.                                                         *)
(***************************************************************************)
PlayIdle ==
  /\ pc = "idle"
  /\ i = 0
  /\ f = 0
  /\ trace = <<>>
  /\ now = 0
  /\ aborted = FALSE
  /\ abortAt = <<>>
  /\ perr = ""
  /\ pending = {}

\* a Bluetooth object as constructed, its address taken from the environment
Constructed(cfg) ==
  /\ rfcommProc = Null
  /\ rfcommFd = Null
  /\ deviceAddress = cfg
  /\ connPc = "idle"
  /\ connErr = ""
  /\ ch = 0
  /\ att = [k \in Attempts |-> NoAttempt]
  /\ opens = 0
  /\ closePc = "idle"
  /\ closes = 0
  /\ closeFault = FALSE
  /\ stdout = <<>>

\* a Bluetooth object whose startConnection succeeded on the first candidate
ConnectedOnFirst ==
  /\ rfcommProc = 1
  /\ rfcommFd = FirstFd
  /\ deviceAddress = Addr1
  /\ connPc = "connected"
  /\ connErr = ""
  /\ ch = 1
  /\ att = [k \in Attempts |->
              IF k = 1
              THEN [proc |-> "running", timer |-> "cleared", resolved |-> TRUE,
                    ok |-> "true", chan |-> knownChannels[1]]
              ELSE NoAttempt]
  /\ opens = 1
  /\ closePc = "idle"
  /\ closes = 0
  /\ closeFault = FALSE
  /\ stdout = <<>>
  /\ envName = <<>>

\* the inputs of the whole-program runs
MainMeasurement ==
  { m \in Measurement :
      m.userId = 1 /\ m.measureType = "HeartRate" /\ m.value = Arr(<<59>>)
      /\ m.date \in {1, 2} }

\* the program from the call of main on
Init ==
  /\ \E ms \in SeqsUpTo(MainMeasurement, MaxMainLen) :
        measurements = flatMeasurementData(UserDataOf(ms))
  /\ mainPc = "start"
  /\ mainErr = ""
  /\ gi = 0
  /\ group = <<>>
  /\ PlayIdle
  /\ \E cfg \in Configs : Constructed(cfg)
  /\ envName = <<>>

Next ==
  \/ MainRead
  \/ GroupStep
  \/ MainConnect
  \/ ListingDone
  \/ ResolveReturn
  \/ EnsurePairedDone
  \/ ReleaseDone
  \/ \E k \in DOMAIN att : StdoutSuccess(k)
  \/ \E k \in DOMAIN att : TimeoutFired(k)
  \/ \E k \in DOMAIN att : ProcExit(k)
  \/ MainPlay
  \/ WriteDone
  \/ WriteError
  \/ TimerFired
  \/ Abort
  \/ CloseBegin
  \/ CloseEnd

Spec ==
  Init /\ [][Next]_vars

\* the grouping pass over every input sequence up to MaxLen
InitGroup ==
  /\ \E ms \in SeqsUpTo(Measurement, MaxLen) :
        measurements = flatMeasurementData(UserDataOf(ms))
  /\ mainPc = "grouping"
  /\ mainErr = ""
  /\ gi = 0
  /\ group = <<>>
  /\ PlayIdle
  /\ Constructed(Addr1)
  /\ envName = <<>>

NextGroup ==
  GroupStep

SpecGroup ==
  InitGroup /\ [][NextGroup]_vars

\* playback of every grouped input up to MaxPlayLen over an open transport
InitPlay ==
  /\ \E ms \in SeqsUpTo(PlayMeasurement, MaxPlayLen) :
        measurements = flatMeasurementData(UserDataOf(ms))
  /\ mainPc = "connected"
  /\ mainErr = ""
  /\ gi = Len(measurements)
  /\ group = groupMeasurementsByTimestamp(measurements)
  /\ PlayIdle
  /\ ConnectedOnFirst

\* one Bluetooth object and a caller of its public methods
InitApi ==
  /\ measurements = <<>>
  /\ mainPc = "api"
  /\ mainErr = ""
  /\ gi = 0
  /\ group = <<>>
  /\ PlayIdle
  /\ \E cfg \in Configs : Constructed(cfg)
  /\ envName = <<>>

\* the attempt connectRFCOMM is waiting for
Awaited ==
  IF connPc = "await" THEN {Spawned} ELSE {}

\* the events of an attempt are followed up to its decision: what comes
\* later (a late exit, a leftover timer) leaves both handles as they are
NextApi ==
  \/ ApiStart
  \/ ListingDone
  \/ ResolveReturn
  \/ EnsurePairedDone
  \/ ReleaseDone
  \/ \E k \in Awaited : StdoutSuccess(k)
  \/ \E k \in Awaited : TimeoutFired(k)
  \/ \E k \in Awaited : ProcExit(k)
  \/ ApiSend
  \/ ApiWriteDone
  \/ ApiWriteError
  \/ ApiClose
  \/ CloseEnd

SpecApi ==
  InitApi /\ [][NextApi]_vars

\* startConnection alone, on richer environments
InitConn ==
  /\ measurements = <<>>
  /\ mainPc = "grouping"
  /\ mainErr = ""
  /\ gi = 0
  /\ group = <<>>
  /\ PlayIdle
  /\ \E e \in Environments : Constructed(e.address) /\ envName = e.name

NextConn ==
  \/ MainConnect
  \/ ListingDone
  \/ ResolveReturn
  \/ EnsurePairedDone
  \/ ReleaseDone
  \/ \E k \in DOMAIN att : StdoutSuccess(k)
  \/ \E k \in DOMAIN att : TimeoutFired(k)
  \/ \E k \in DOMAIN att : ProcExit(k)

SpecConn ==
  InitConn /\ [][NextConn]_vars

\* startConnection with what the event loop and `rfcomm release` guarantee:
\* a timer armed by setTimeout (line 65) fires, and the release command
\* (line 59) ends, so exec calls back.  Nothing is assumed of the connect
\* subprocesses: they may stay silent and never exit.
SpecConnFair ==
  /\ InitConn
  /\ [][NextConn]_vars
  /\ WF_vars(ReleaseDone)
  /\ \A k \in Attempts : WF_vars(TimeoutFired(k))

NextPlay ==
  \/ MainPlay
  \/ WriteDone
  \/ WriteError
  \/ TimerFired
  \/ Abort

SpecPlay ==
  InitPlay /\ [][NextPlay]_vars

(***************************************************************************)
(* What the claims speak of.                                               *)
(***************************************************************************)
RECURSIVE AscOfSet(_)
AscOfSet(S) ==
  IF S = {} THEN <<>>
  ELSE LET m == CHOOSE x \in S : \A y \in S : x <= y
       IN  <<m>> \o AscOfSet(S \ {m})

\* the timestamps that have a group, ascending
GroupTimes ==
  AscOfSet({group[k].timestamp : k \in 1..Len(group)})

GroupAt(t) ==
  group[CHOOSE k \in 1..Len(group) : group[k].timestamp = t]

Shape(e) ==
  [kind |-> e.kind, ms |-> e.ms, ts |-> e.ts, measureType |-> e.measureType,
   value |-> e.value, userId |-> e.userId]

ShapeOf(tr) ==
  [k \in 1..Len(tr) |-> Shape(tr[k])]

IsSend(e) ==
  e.kind = "send"

Sends(tr) ==
  SelectSeq(tr, IsSend)

\* the messages of one group: a message per field, in the fixed order, whose
\* value passes the driver's test
RECURSIVE GroupMessagesFrom(_, _)
GroupMessagesFrom(g, k) ==
  IF k > Len(FieldOrder) THEN <<>>
  ELSE (IF Truthy(g.fields[FieldOrder[k]])
        THEN << [kind |-> "send", ms |-> 0, ts |-> g.timestamp,
                 measureType |-> FieldType[k], value |-> g.fields[FieldOrder[k]],
                 userId |-> g.userId] >>
        ELSE <<>>) \o GroupMessagesFrom(g, k + 1)

WaitShape(s) ==
  [kind |-> "wait", ms |-> s * 1000, ts |-> 0, measureType |-> "",
   value |-> Undefined, userId |-> 0]

\* messages of the first n groups in ascending order, without the waits
RECURSIVE MessagesOfFirst(_)
MessagesOfFirst(n) ==
  IF n = 0 THEN <<>>
  ELSE MessagesOfFirst(n - 1) \o GroupMessagesFrom(GroupAt(GroupTimes[n]), 1)

\* a whole playback: each group's messages, then the wait into the next group
RECURSIVE PlaybackOfFirst(_)
PlaybackOfFirst(n) ==
  IF n = 0 THEN <<>>
  ELSE PlaybackOfFirst(n - 1)
       \o GroupMessagesFrom(GroupAt(GroupTimes[n]), 1)
       \o (IF n < Len(GroupTimes)
           THEN <<WaitShape(GroupTimes[n + 1] - GroupTimes[n])>> ELSE <<>>)

\* number of groups whose processing the driver has begun
Entered ==
  CASE pc = "idle" -> 0
    [] pc \in {"writing", "timer"} -> i + 1
    [] pc = "rejected" -> i + 1
    [] OTHER -> i

FieldPos(mt) ==
  CHOOSE k \in 1..Len(FieldType) : FieldType[k] = mt

\* C1: once the cancellation signal is set no further group is begun, every
\* message handed over belongs to a group begun before, and when the driver
\* has stopped at group index k all messages of the groups before k are out.
C1_CancelBeforeGroup ==
  /\ [][aborted => Entered' = Entered]_vars
  /\ [](\A k \in 1..Len(trace) :
           IsSend(trace[k]) =>
             \E j \in 1..Entered : GroupTimes[j] = trace[k].ts)
  /\ [](pc = "done" => ShapeOf(Sends(trace)) = MessagesOfFirst(i))

C1_Witness ==
  /\ pc = "done"
  /\ aborted
  /\ i = 1
  /\ Len(GroupTimes) = 3
  /\ Len(Sends(trace)) = 1

\* C2 as stated: a wait is only ever begun while the signal is not set.
C2_NoWaitOnceCancelled ==
  [][(pc # "timer" /\ pc' = "timer") => ~aborted]_vars

\* C2 amended: when the write of a group's last field resolves, the driver
\* begins that group's wait if a next group exists, whether or not the signal
\* is set; the signal is read when the wait has ended, and if it is set the
\* driver stops there without sending anything more.
C2_WaitThenStop ==
  [][ /\ ( /\ pc = "writing"
           /\ NextField(Datum(i), f + 1) = 0
           /\ pc' \notin {"writing", "rejected"} )
         => IF i + 1 < Len(GroupTimes)
            THEN /\ pc' = "timer"
                 /\ ShapeOf(trace') =
                      Append(ShapeOf(trace),
                             WaitShape(GroupTimes[i + 2] - GroupTimes[i + 1]))
            ELSE pc' = "done" /\ trace' = trace
      /\ (pc = "timer" /\ aborted /\ pc' # "timer")
         => pc' = "done" /\ trace' = trace /\ i' = i + 1
      /\ (pc = "done") => (pc' = "done" /\ trace' = trace) ]_vars

C2_Witness ==
  /\ pc = "done"
  /\ aborted
  /\ i < Len(GroupTimes)
  /\ Len(trace) >= 2
  /\ trace[Len(trace)].kind = "wait"
  /\ trace[Len(trace) - 1].kind = "send"

\* C3: an uncancelled playback that has ended consists of each group's
\* messages followed by a wait of t(i+1) - t(i) seconds, none after the last
\* group; so each message is dated the sum of the waits before it.
C3_WaitsAreDeltas ==
  /\ (pc = "done" /\ ~aborted) => ShapeOf(trace) = PlaybackOfFirst(Len(GroupTimes))
  /\ \A k \in 1..Len(trace) :
        IsSend(trace[k]) => trace[k].date = (trace[k].ts - GroupTimes[1]) * 1000

C3_Witness ==
  /\ pc = "done"
  /\ ~aborted
  /\ GroupTimes = <<1, 2, 4>>
  /\ Len(Sends(trace)) = 3
  /\ Len(trace) = 5

\* C4: the messages handed to the transport are ordered by group timestamp,
\* and within one group by the fixed field order.
C4_AscendingOrder ==
  \A a, b \in 1..Len(Sends(trace)) :
    a < b =>
      LET x == Sends(trace)[a]
          y == Sends(trace)[b]
      IN  \/ x.ts < y.ts
          \/ x.ts = y.ts /\ FieldPos(x.measureType) < FieldPos(y.measureType)

C4_Witness ==
  /\ pc = "done"
  /\ Len(measurements) = 3
  /\ measurements[1].date = 4
  /\ measurements[2].date = 1
  /\ measurements[3].date = 1
  /\ measurements[2].measureType = "Position"
  /\ measurements[3].measureType = "HeartRate"
  /\ Len(Sends(trace)) = 3

\* C5 as stated: after an uncancelled playback without send failure, every
\* recognized field a group holds has exactly one message carrying its value,
\* the group's userId and its measureType, and a field not held has none.
C5_OneMessagePerHeldField ==
  (pc = "done" /\ ~aborted) =>
    \A g \in 1..Len(group) : \A k \in 1..Len(FieldOrder) :
      LET hits == { n \in 1..Len(trace) :
                      /\ IsSend(trace[n])
                      /\ trace[n].ts = group[g].timestamp
                      /\ trace[n].measureType = FieldType[k] }
      IN  IF group[g].fields[FieldOrder[k]] # Undefined
          THEN /\ Cardinality(hits) = 1
               /\ \A n \in hits :
                     /\ trace[n].value = group[g].fields[FieldOrder[k]]
                     /\ trace[n].userId = group[g].userId
          ELSE hits = {}

\* the (timestamp, userId, field, value) records of the groups
FlattenGroups(g) ==
  { [timestamp |-> g[k].timestamp, userId |-> g[k].userId, field |-> key,
     value |-> g[k].fields[key]] :
      <<k, key>> \in { x \in (1..Len(g)) \X AllKeys : g[x[1]].fields[x[2]] # Undefined } }

IgnoredCodes ==
  {"R2R", "ECG"}

RecognizedTypes ==
  {FieldType[k] : k \in 1..Len(FieldType)}

\* the measurements that are not ignored and have an output field, each
\* (timestamp, field) pair represented by its last measurement in input order
RetainedLastWins(ms) ==
  { [timestamp |-> ms[j].date, userId |-> ms[j].userId,
     field |-> MeasurementTypeEnum(ms[j].measureType), value |-> ms[j].value] :
      j \in { n \in 1..Len(ms) :
                /\ ms[n].measureType \in RecognizedTypes
                /\ ~\E n2 \in (n + 1)..Len(ms) :
                      /\ ms[n2].date = ms[n].date
                      /\ ms[n2].measureType = ms[n].measureType } }

\* C6 as stated: flattening the finished groups gives back exactly the
\* retained measurements, last write winning per (timestamp, field).
C6_FlattenReconstructs ==
  (gi = Len(measurements)) =>
    FlattenGroups(group) = RetainedLastWins(measurements)

\* C7: consuming a measurement of an ignored code changes no group and
\* creates none, and no group ever holds a value under an ignored code's key.
C7_IgnoredContributeNothing ==
  /\ [][(gi' = gi + 1 /\ measurements[gi + 1].measureType \in IgnoredCodes)
          => group' = group]_vars
  /\ [](\A k \in 1..Len(group) :
           /\ group[k].fields["r2r"] = Undefined
           /\ group[k].fields["ecg"] = Undefined)

C7_Witness ==
  /\ gi = 2
  /\ measurements[1].measureType = "HeartRate"
  /\ measurements[2].measureType = "ECG"
  /\ measurements[2].date # measurements[1].date
  /\ Len(group) = 1

\* C8 as stated: consuming a measurement whose type is not one of the
\* recognized types neither creates a group nor changes one.
C8_UnrecognizedDropped ==
  [][(gi' = gi + 1 /\ measurements[gi + 1].measureType \notin RecognizedTypes)
      => group' = group]_vars

Candidates ==
  1..Len(knownChannels)

AllAttemptsFailed ==
  \A k \in Candidates : att[k].ok = "false"

\* C9: startConnection fails with the channel-negotiation error exactly when
\* every candidate's attempt was decided as failed, and then the transport
\* holds no subprocess and no descriptor and openSync was never called.
C9_NoPartialOpen ==
  /\ AllAttemptsFailed <=> connErr = ChannelError
  /\ AllAttemptsFailed =>
        /\ connPc = "failed"
        /\ mainPc = "failed"
        /\ mainErr = ChannelError
        /\ rfcommProc = Null
        /\ rfcommFd = Null
        /\ opens = 0

C9_Witness ==
  /\ AllAttemptsFailed
  /\ connErr = ChannelError
  /\ att[1].timer = "fired"
  /\ att[2].proc = "exited"
  /\ att[2].timer = "armed"
  /\ att[5].timer = "fired"

C11_NotConnectedRejects ==
  /\ [][rfcommFd = Null => trace' = trace]_vars
  /\ [][(rfcommFd = Null /\ pc = "idle" /\ perr' # perr)
         => (perr' = NotConnectedError /\ pc' = "idle")]_vars
  /\ [][(rfcommFd = Null /\ rfcommFd' # Null)
         => (connPc = "await" /\ connPc' = "connected" /\ mainPc' = "connected")]_vars
  /\ [][(rfcommFd # Null /\ rfcommFd' = Null)
         => (closePc = "idle" /\ closePc' = "release")]_vars
  /\ [](opens = 0 => rfcommFd = Null)

\* a line was sent, the connection closed, and the next send refused
C11_Witness ==
  /\ perr = NotConnectedError
  /\ pc = "idle"
  /\ rfcommFd = Null
  /\ closes = 1
  /\ opens = 1
  /\ Len(trace) = 1

\* C12: a closeConnection call never throws, whatever the state it is made
\* in and however often: it forgets the descriptor before it waits for the
\* release, also when closing it threw, and when it returns the transport
\* holds neither a descriptor nor a subprocess.
C12_CloseNeverThrows ==
  /\ [](closePc \in {"idle", "release"})
  /\ [](closePc = "release" => rfcommFd = Null)
  /\ [][(closePc = "idle" /\ closes' # closes)
         => (closePc' = "release" /\ closes' = closes + 1)]_vars
  /\ [][(closePc = "release" /\ closePc' # "release")
         => (closePc' = "idle" /\ rfcommFd' = Null /\ rfcommProc' = Null)]_vars

\* the second call on the object, made on an open connection whose
\* descriptor failed to close
C12_Witness ==
  /\ closePc = "release"
  /\ closeFault
  /\ closes = 2
  /\ rfcommFd = Null
  /\ rfcommProc # Null

\* C13: a sendMessage call that fails for another reason than a missing
\* connection does not stop the playback: the driver's promise is rejected
\* only with the not-connected error.
C13_OnlyConnectionLossAborts ==
  pc = "rejected" => perr = NotConnectedError

\* C14: when startConnection fails, in the resolution of the device or in
\* the negotiation of the channel, main fails with the same error, the
\* playback driver is never started and no line is ever written.
C14_FailedConnectNoPlayback ==
  connPc = "failed" =>
    /\ connErr \in {ListingError, NotFoundError, ChannelError, OpenError}
    /\ mainPc = "failed"
    /\ mainErr = connErr
    /\ pc = "idle"
    /\ trace = <<>>
    /\ closes = 0

C14_Witness ==
  /\ connPc = "failed"
  /\ connErr = NotFoundError
  /\ mainErr = NotFoundError
  /\ Len(group) = 2
  /\ pc = "idle"

\* C15: a startConnection call with no identifier, on an object with neither
\* an address nor a name configured, fails with the configuration-missing
\* error before the paired devices are listed and before any connect
\* subprocess is spawned.
C15_MissingConfigFailsEarly ==
  (deviceAddress = <<>> /\ envName = <<>> /\ connPc # "idle") =>
    /\ connPc = "failed"
    /\ connErr = ConfigurationMissingError
    /\ Spawned = 0

\* the device lines of the listings, and the name they give an address
ListedDevices ==
  UNION { { l[k] : k \in { j \in 1..Len(l) : l[j].isDevice } } : l \in Listings }

PairedName(a) ==
  (CHOOSE d \in ListedDevices : d.address = a).name

\* C16: with only a device name configured, the device startConnection goes
\* on to connect to is a paired device whose name contains the configured
\* name, case-insensitively.
C16_NameOnlySelectsByName ==
  (envName # <<>> /\ connPc \in {"ensurePaired", "release", "await", "connected"}) =>
    includes(toLowerCase(PairedName(deviceAddress)), toLowerCase(envName))

\* seventeen characters, each a hexadecimal digit of either case or a colon
ColonHex17(str) ==
  /\ Len(str) = 17
  /\ \A k \in 1..Len(str) :
        \/ str[k] \in {"0", "1", "2", "3", "4", "5", "6", "7", "8", "9", ":"}
        \/ str[k] \in {"A", "B", "C", "D", "E", "F"}
        \/ str[k] \in {"a", "b", "c", "d", "e", "f"}

\* C17: an input of the colon-hex form is itself the address startConnection
\* goes on with, and the listing command is not run for it.
C17_AddressPassesThrough ==
  /\ [][(connPc = "idle" /\ connPc' # "idle" /\ ColonHex17(deviceAddress))
         => (connPc' = "ensurePaired" /\ deviceAddress' = deviceAddress)]_vars
  /\ [](connPc \in {"listing", "listed"} => ~ColonHex17(deviceAddress))
  /\ [][ColonHex17(deviceAddress) => deviceAddress' = deviceAddress]_vars

C17_Witness ==
  /\ connPc = "connected"
  /\ deviceAddress = AddrLower
  /\ rfcommFd # Null

\* two characters that are the same up to case
SameLetter(c, d) ==
  \/ c = d
  \/ \E k \in 1..Len(Upper) : {c, d} = {Upper[k], Lower[k]}

\* the device lines of a listing whose name contains the fragment, case
\* ignored
MatchingLines(lines, frag) ==
  { k \in 1..Len(lines) :
      /\ lines[k].isDevice
      /\ \E off \in 0..(Len(lines[k].name) - Len(frag)) :
            \A j \in 1..Len(frag) : SameLetter(lines[k].name[off + j], frag[j]) }

\* C18: an input that is not of the address form is looked up in the
\* listing of paired devices: the address of the first listed device whose
\* name contains it, case ignored, is what startConnection goes on with;
\* when no listed device matches, or none is listed, startConnection fails
\* with the device-not-found error and no connect subprocess is spawned.
C18_FirstMatchOrNotFound ==
  /\ [][(connPc = "idle" /\ connPc' # "idle" /\ ~ColonHex17(deviceAddress))
         => connPc' = "listing"]_vars
  /\ [][(connPc = "listed" /\ connPc' # "listed")
         => LET M == MatchingLines(stdout, deviceAddress)
            IN  IF M = {}
                THEN /\ connPc' = "failed"
                     /\ connErr' = NotFoundError
                     /\ deviceAddress' = deviceAddress
                ELSE /\ connPc' = "ensurePaired"
                     /\ \E k \in M : /\ \A j \in M : k <= j
                                      /\ deviceAddress' = stdout[k].address]_vars
  /\ [](connErr = NotFoundError
          => (connPc = "failed" /\ Spawned = 0 /\ rfcommProc = Null /\ rfcommFd = Null))

\* the fragment "aB" or the empty one, and a listing whose first device is
\* the tablet
C18_Witness ==
  /\ connPc = "connected"
  /\ deviceAddress = Addr2
  /\ envName = <<>>
  /\ rfcommProc = 2

\* C19: setting the signal runs nothing of the driver; a write that resolves
\* while the signal is set is followed by the write of the group's next held
\* field; a wait under way when the signal is set lasts its whole delay, and
\* only then, at the head of the next iteration, the driver stops, after
\* which the trace stays as it is.
C19_SignalNotInterrupting ==
  /\ [][(~aborted /\ aborted')
         => (pc' = pc /\ i' = i /\ f' = f /\ trace' = trace /\ now' = now)]_vars
  /\ [][( /\ aborted
          /\ pc = "writing"
          /\ (f' # f \/ pc' # "writing")
          /\ pc' # "rejected"
          /\ NextField(Datum(i), f + 1) # 0 )
         => /\ pc' = "writing"
            /\ i' = i
            /\ f' = NextField(Datum(i), f + 1)
            /\ Len(trace') = Len(trace) + 1
            /\ IsSend(trace'[Len(trace')])
            /\ trace'[Len(trace')].ts = GroupTimes[i + 1]
            /\ trace'[Len(trace')].measureType = FieldType[f']]_vars
  /\ [][(aborted /\ pc = "timer" /\ pc' # "timer")
         => /\ now' = now + (GroupTimes[i + 2] - GroupTimes[i + 1]) * 1000
            /\ pc' = "done"
            /\ trace' = trace]_vars
  /\ [][pc = "done" => (pc' = "done" /\ trace' = trace)]_vars
  /\ [](pc = "done" => ShapeOf(Sends(trace)) = MessagesOfFirst(i))

\* the signal was set during the write of the first of two fields of the
\* first group; the second was sent, the wait done, and the driver stopped
C19_Witness ==
  /\ pc = "done"
  /\ i = 1
  /\ Len(GroupTimes) >= 2
  /\ Len(abortAt) = 2
  /\ abortAt[1] = "writing"
  /\ Len(trace) = 3
  /\ trace[1].measureType = FieldType[abortAt[2]]
  /\ IsSend(trace[2])
  /\ trace[3].kind = "wait"
  /\ now = trace[3].ms

\* C20: main returns the cleanup closure when startConnection has succeeded,
\* in the step that starts the driver, so before any write has resolved and
\* before any wait has ended; every further step of the playback comes after
\* the return; calling the closure closes the descriptor at once and, when
\* the release has called back, leaves the transport without handles.
C20_CleanupReturnedAtOnce ==
  /\ [](mainPc = "returned"
          => (connPc = "connected" /\ opens = 1
              /\ \E k \in DOMAIN att : att[k].ok = "true"))
  /\ [][(mainPc # "returned" /\ mainPc' = "returned")
         => /\ mainPc = "connected"
            /\ pc = "idle"
            /\ trace = <<>>
            /\ now' = now
            /\ IF aborted \/ Len(group) = 0
               THEN pc' = "done" /\ trace' = <<>>
               ELSE /\ Len(trace') = 1
                    /\ pc' = (IF IsSend(trace'[1]) THEN "writing" ELSE "timer")]_vars
  /\ [](pc # "idle" => mainPc = "returned")
  /\ [](closes > 0 => mainPc = "returned")
  /\ [][closes' # closes => (closePc' = "release" /\ rfcommFd' = Null)]_vars
  /\ [][(closePc = "release" /\ closePc' = "idle")
         => (rfcommFd' = Null /\ rfcommProc' = Null)]_vars

\* main has returned, the playback has gone on to its second group, and the
\* closure has closed the transport
C20_Witness ==
  /\ mainPc = "returned"
  /\ i = 1
  /\ Len(trace) = 3
  /\ closes = 1
  /\ closePc = "idle"
  /\ rfcommFd = Null
  /\ rfcommProc = Null

\* C21: when the measurement file does not parse as JSON, main fails with
\* the parse error while nothing of the transport has been touched: no
\* listing, no connect subprocess, no open, no grouping, and no line is
\* ever written.
C21_ParseFailureFirst ==
  mainErr = ParseError =>
    /\ mainPc = "failed"
    /\ gi = 0
    /\ connPc = "idle"
    /\ stdout = <<>>
    /\ Spawned = 0
    /\ opens = 0
    /\ rfcommFd = Null
    /\ rfcommProc = Null
    /\ closes = 0
    /\ pc = "idle"
    /\ trace = <<>>

C21_Witness ==
  /\ mainErr = ParseError
  /\ mainPc = "failed"
  /\ measurements = <<>>
  /\ aborted

\* C22: an attempt is decided once, by the first of its events: success
\* output decides it as success, the timer or the exit as failure.  An
\* event of a decided attempt leaves the outcome, the candidate in turn, the
\* state of startConnection and both handles as they are.
C22_DecidedOnce ==
  /\ [][\A k \in DOMAIN att :
           (att[k].ok = "pending" /\ att'[k].ok # "pending")
             => /\ k = Spawned
                /\ connPc = "await"
                /\ \/ /\ att'[k].ok = "true"
                      /\ att'[k].resolved
                      /\ att'[k].timer = "cleared"
                      /\ att'[k].proc = att[k].proc
                   \/ /\ att'[k].ok = "false"
                      /\ att'[k].timer = "fired"
                      /\ att[k].timer = "armed"
                   \/ /\ att'[k].ok = "false"
                      /\ att'[k].proc = "exited"
                      /\ att[k].proc # "exited"]_vars
  /\ [][\A k \in DOMAIN att :
           (att[k].ok # "pending" /\ att'[k] # att[k] /\ closePc' = closePc)
             => /\ att'[k].ok = att[k].ok
                /\ ch' = ch
                /\ connPc' = connPc
                /\ connErr' = connErr
                /\ mainPc' = mainPc
                /\ rfcommProc' = rfcommProc
                /\ rfcommFd' = rfcommFd
                /\ opens' = opens
                /\ \A j \in DOMAIN att : j # k => att'[j] = att[j]]_vars

\* the first attempt was decided by its exit, then printed the success line
\* and had its timer cleared; the second attempt is the one retained
C22_Witness ==
  /\ att[1].ok = "false"
  /\ att[1].proc = "exited"
  /\ att[1].resolved
  /\ att[1].timer = "cleared"
  /\ att[2].ok = "true"
  /\ connPc = "connected"
  /\ rfcommProc = 2

\* C23: during playback at most one write is in flight; the driver hands
\* over a line only when no write is pending or in the step in which the
\* pending one calls back, so the lines go out one after the other in the
\* order of the trace.
C23_OneWriteInFlight ==
  /\ [](Cardinality(pending) <= 1)
  /\ [](pending # {} => (pc = "writing" /\ pending = {Len(trace)}))
  /\ [](pc = "writing" => pending = {Len(trace)})
  /\ [][NewWrites(trace, trace') # {}
         => /\ Len(trace') = Len(trace) + 1
            /\ pending \subseteq {Len(trace)}
            /\ pending' = {Len(trace')}]_vars

\* the write of a group's second field is pending, that of its first has
\* called back
C23_Witness ==
  /\ pc = "writing"
  /\ Len(trace) = 2
  /\ IsSend(trace[1])
  /\ IsSend(trace[2])
  /\ trace[1].ts = trace[2].ts
  /\ pending = {2}

\* C24: a connect subprocess is spawned only in the callback of a release
\* started for it, one at a time, for the candidate in turn; the one of the
\* first candidate is the first of the call, and the one of a later
\* candidate comes when the attempt before it was decided as failed.
C24_ReleaseThenSpawn ==
  /\ [][Spawned' # Spawned
         => /\ Spawned' = Spawned + 1
            /\ connPc = "release"
            /\ connPc' = "await"
            /\ ch' = ch
            /\ att'[Spawned'].chan = knownChannels[ch]
            /\ att'[Spawned'].ok = "pending"
            /\ IF ch = 1
               THEN Spawned = 0
               ELSE /\ att[Spawned].ok = "false"
                    /\ att[Spawned].chan = knownChannels[ch - 1]]_vars
  /\ [][(connPc # "release" /\ connPc' = "release")
         => (Spawned' = Spawned
             /\ \A k \in 1..Spawned : att'[k].ok = "false")]_vars

C24_Witness ==
  /\ connPc = "await"
  /\ Spawned = 3
  /\ ch = 3
  /\ att[1].ok = "false"
  /\ att[2].ok = "false"
  /\ att[3].ok = "pending"
  /\ att[3].proc = "running"

Negotiating ==
  connPc \in {"release", "await"}

C26_TimerSignalsOwnProcess ==
  /\ [](rfcommProc # Null
          => /\ att[rfcommProc].ok = "true"
             /\ att[rfcommProc].timer = "cleared")
  /\ [][\A j \in DOMAIN att :
          (att[j].proc = "running" /\ att'[j].proc = "signalled")
            => \/ att[j].timer = "armed" /\ att'[j].timer = "fired"
               \/ closePc = "release" /\ closePc' = "idle" /\ rfcommProc = j]_vars
  /\ [][\A k \in DOMAIN att :
          (att[k].timer = "armed" /\ att'[k].timer = "fired")
            => /\ \A j \in DOMAIN att \ {k} : att'[j] = att[j]
               /\ rfcommProc' = rfcommProc
               /\ k # rfcommProc
               /\ att[k].ok = "false"
                    => /\ att'[k].proc = att[k].proc
                       /\ UNCHANGED <<rfcommFd, connPc, connErr, ch, mainPc,
                                      playVars>>]_vars

\* the first attempt was decided by its exit; its timer fired while the
\* driver was writing over the connection of the second
C26_Witness ==
  /\ att[1].ok = "false"
  /\ att[1].proc = "exited"
  /\ att[1].timer = "fired"
  /\ att[1].resolved
  /\ att[2].ok = "true"
  /\ rfcommProc = 2
  /\ att[2].proc = "running"
  /\ pc = "writing"
  /\ closes = 0

\* C27: while the most recent startConnection is the one that failed, the
\* transport holds neither a descriptor nor a subprocess, and a sendMessage
\* called then throws the not-connected error and writes nothing.
C27_FailedStartHoldsNothing ==
  /\ [](mainPc = "failed" => (rfcommFd = Null /\ rfcommProc = Null))
  /\ [][(mainPc = "failed" /\ ApiIdle /\ pc' # pc)
         => (pc' = "idle" /\ perr' = NotConnectedError /\ trace' = trace)]_vars

\* the case against C27: connected on the first call, failed on the second
\* with all five candidates refused, and a line written to the descriptor
\* of the first connection
C27_StaleHandleWritten ==
  /\ mainPc = "failed"
  /\ connErr = ChannelError
  /\ closes = 0
  /\ rfcommFd = FirstFd
  /\ rfcommProc # Null
  /\ att[rfcommProc].ok = "true"
  /\ Len(trace) = 1
  /\ trace[1].kind = "send"
  /\ trace[1].fd = FirstFd
  /\ pc = "writing"

====
